---- MODULE Spec2Model ----
(***************************************************************************)
(* Polynomial layer of the Kyber reference implementation                  *)
(* (src/reference/poly.rs): serialization, compression, message encoding   *)
(* and lazy arithmetic on Poly { coeffs: [i16; KYBER_N] }.                  *)
(*                                                                         *)
(* Rust integers are modelled with their width.  TLC's integers are 32-bit *)
(* signed, so u32 values are kept as two 16-bit limbs <<hi, lo>>.           *)
(***************************************************************************)
EXTENDS Integers, Sequences, FiniteSets, TLC

VARIABLES
    KYBER_POLY_COMPRESSED_BYTES, \* the configured compressed width (params)
    overflow_checks,             \* build profile: TRUE = arithmetic overflow panics
    a,                           \* a polynomial the caller passes by value
    b,                           \* a second polynomial (addend)
    r,                           \* the polynomial the caller passes as &mut
    buf,                         \* the byte buffer the caller reads and writes
    msg_in,                      \* a message the caller encodes
    msg_out,                     \* the message buffer poly_tomsg fills
    panicked,                    \* the process has panicked
    wrapped,                     \* the last operation lost bits of an integer silently
    trace                        \* the operations called so far

vars == <<KYBER_POLY_COMPRESSED_BYTES, overflow_checks, a, b, r, buf,
          msg_in, msg_out, panicked, wrapped, trace>>

----------------------------------------------------------------------------
(* Parameters (params.rs) *)

KYBER_N == 256

KYBER_Q == 3329

KYBER_POLY_BYTES == 384

KYBER_SYM_BYTES == 32

SupportedWidths == {128, 160}

\* widths a build may be configured with; only the supported ones ship
ConfiguredWidths == SupportedWidths \cup {96, 320}

(* Model bounds *)

MaxOps == 2

MaxMsgOps == 3

NCanon == 14

NSigned == 27

NLazy == 53

NWide == 4

NGrid == 4

NMsgs == 5

NNoise == 7

Idx == 0 .. (KYBER_N - 1)

----------------------------------------------------------------------------
(* Fixed-width integers *)

Pow2(k) == 2 ^ k

U8(x) == x % 256

U16(x) == x % 65536

\* `x as i16` / wrapping i16 arithmetic
I16(x) == LET m == x % 65536 IN IF m >= 32768 THEN m - 65536 ELSE m

FitsI16(x) == -32768 <= x /\ x <= 32767

RECURSIVE BitAnd(_, _)
BitAnd(x, y) ==
    IF x = 0 \/ y = 0 THEN 0
    ELSE (IF x % 2 = 1 /\ y % 2 = 1 THEN 1 ELSE 0) + 2 * BitAnd(x \div 2, y \div 2)

RECURSIVE BitOr(_, _)
BitOr(x, y) ==
    IF x = 0 THEN y
    ELSE IF y = 0 THEN x
    ELSE (IF x % 2 = 1 \/ y % 2 = 1 THEN 1 ELSE 0) + 2 * BitOr(x \div 2, y \div 2)

\* u32 as limbs <<hi, lo>>, each in 0..65535
U32FromI16(x) == IF x >= 0 THEN <<0, x>> ELSE <<65535, x + 65536>>

\* x << k for k < 16: bits shifted out are lost without a panic
\* [v |-> the shifted value, lost |-> a set bit was shifted out]
U32Shl(x, k) ==
    LET lo == x[2] * Pow2(k)
        hi == x[1] * Pow2(k) + (lo \div 65536)
    IN [v |-> <<hi % 65536, lo % 65536>>, lost |-> hi >= 65536]

\* x + c for 0 <= c < 65536: [v |-> wrapped sum, ov |-> the true sum needs 33 bits]
U32Add(x, c) ==
    LET lo == x[2] + c
        hi == x[1] + (lo \div 65536)
    IN [v |-> <<hi % 65536, lo % 65536>>, ov |-> hi >= 65536]

\* x * (mh * 2^16 + ml) for ml < 2^15, mh < 2^15:
\* [v |-> the low 32 bits, ov |-> the true product needs more than 32 bits]
U32Mul(x, mh, ml) ==
    LET lo == x[2] * ml
        mid == (lo \div 65536) + x[1] * ml + x[2] * mh
    IN [v |-> <<mid % 65536, lo % 65536>>,
        ov |-> x[1] * mh > 0 \/ mid >= 65536]

\* x >> k for 16 <= k < 32
U32ShrHi(x, k) == x[1] \div Pow2(k - 16)

----------------------------------------------------------------------------
(* Poly *)

Poly_new == [i \in Idx |-> 0]

\* the branchless sign fix-up  u += (u >> 15) & KYBER_Q as i16
csign(u) == I16(u + BitAnd(U16(u \div 32768), KYBER_Q))

----------------------------------------------------------------------------
(* poly_tobytes / poly_frombytes *)

poly_tobytes_nofix(rr, aa) ==
    [k \in DOMAIN rr |->
        IF k >= 3 * (KYBER_N \div 2) THEN rr[k]
        ELSE LET i == k \div 3
                 t0 == aa[2 * i]
                 t1 == aa[2 * i + 1]
             IN CASE k % 3 = 0 -> U8(U16(t0))
                  [] k % 3 = 1 -> U8(BitOr(U16(t0 \div 256), U16(I16(t1 * 16))))
                  [] OTHER     -> U8(U16(t1 \div 16))]

poly_tobytes(rr, aa) ==
    [k \in DOMAIN rr |->
        IF k >= 3 * (KYBER_N \div 2) THEN rr[k]
        ELSE LET i == k \div 3
                 t0 == csign(aa[2 * i])
                 t1 == csign(aa[2 * i + 1])
             IN CASE k % 3 = 0 -> U8(U16(t0))
                  [] k % 3 = 1 -> U8(BitOr(U16(t0 \div 256), U16(I16(t1 * 16))))
                  [] OTHER     -> U8(U16(t1 \div 16))]

poly_frombytes_nomask(rr, aa) ==
    [n \in Idx |->
        LET i == n \div 2
        IN IF n % 2 = 0
           THEN I16(BitOr(aa[3 * i], U16(aa[3 * i + 1] * 256)))
           ELSE I16(BitOr(aa[3 * i + 1] \div 16, BitAnd(U16(aa[3 * i + 2] * 16), 4095)))]

\* Rust binds & tighter than |: x | (y & 0xFFF)
poly_frombytes(rr, aa) ==
    [n \in Idx |->
        LET i == n \div 2
        IN IF n % 2 = 0
           THEN I16(BitOr(aa[3 * i], BitAnd(U16(aa[3 * i + 1] * 256), 4095)))
           ELSE I16(BitOr(aa[3 * i + 1] \div 16, BitAnd(U16(aa[3 * i + 2] * 16), 4095)))]

----------------------------------------------------------------------------
(* poly_compress / poly_decompress *)

compress4_314(c) ==
    LET u == csign(c)
        sum == U16(U16(u) * 16) + (KYBER_Q \div 2)
        tmp == (U16(sum) * 314) \div Pow2(20)
    IN [t |-> BitAnd(U16(tmp), 15), ov |-> sum >= 65536, lost |-> U16(u) * 16 >= 65536]

\* one coefficient, 128-byte mode: [t |-> the 4-bit value, ov |-> the u16 sum
\* overflowed (a panic with overflow checks), lost |-> the shift dropped a set bit]
compress4(c) ==
    LET u == csign(c)
        sum == U16(U16(u) * 16) + (KYBER_Q \div 2)
        tmp == (U16(sum) * 315) \div Pow2(20)
    IN [t |-> BitAnd(U16(tmp), 15), ov |-> sum >= 65536, lost |-> U16(u) * 16 >= 65536]

compress5_trunc(c) ==
    LET u == csign(c)
        sh == U32Shl(U32FromI16(u), 5)
        prod == U32Mul(sh.v, 0, 315)
        tmp == U32ShrHi(prod.v, 20)
    IN [t |-> BitAnd(U16(tmp), 31), ov |-> prod.ov, lost |-> sh.lost]

\* one coefficient, 160-byte mode: [t |-> the 5-bit value, ov |-> the u32 sum or
\* product overflowed (a panic with overflow checks), lost |-> the shift dropped
\* a set bit]
compress5(c) ==
    LET u == csign(c)
        sh == U32Shl(U32FromI16(u), 5)
        sum == U32Add(sh.v, KYBER_Q \div 2)
        prod == U32Mul(sum.v, 0, 315)
        tmp == U32ShrHi(prod.v, 20)
    IN [t |-> BitAnd(U16(tmp), 31), ov |-> sum.ov \/ prod.ov, lost |-> sh.lost]

\* the first group of 8 coefficients from group i on in which the arithmetic
\* overflows, KYBER_N / 8 if none
RECURSIVE FirstOverflow(_, _)
FirstOverflow(ov, i) ==
    IF i = KYBER_N \div 8 THEN i
    ELSE IF \E j \in 0 .. 7 : ov[8 * i + j] THEN i
    ELSE FirstOverflow(ov, i + 1)

\* the bytes written for one group of 8 values, 4 bits each
pack4(t, i, m) == BitOr(t[8 * i + 2 * m], U8(t[8 * i + 2 * m + 1] * 16))

\* the bytes written for one group of 8 values, 5 bits each
pack5(t, i, m) ==
    LET t0 == t[8 * i]
        t1 == t[8 * i + 1]
        t2 == t[8 * i + 2]
        t3 == t[8 * i + 3]
        t4 == t[8 * i + 4]
        t5 == t[8 * i + 5]
        t6 == t[8 * i + 6]
        t7 == t[8 * i + 7]
    IN CASE m = 0 -> BitOr(t0, U8(t1 * 32))
         [] m = 1 -> BitOr(BitOr(t1 \div 8, U8(t2 * 4)), U8(t3 * 128))
         [] m = 2 -> BitOr(t3 \div 2, U8(t4 * 16))
         [] m = 3 -> BitOr(BitOr(t4 \div 16, U8(t5 * 2)), U8(t6 * 64))
         [] OTHER -> BitOr(t6 \div 4, U8(t7 * 8))

\* the match on KYBER_POLY_COMPRESSED_BYTES with coder c (compress4 or
\* compress5) writing g bytes per group; an overflowing coefficient panics
\* when overflow checks are on, after the groups before it were written
compress_with(rr, aa, g) ==
    LET res == [n \in Idx |-> IF g = 4 THEN compress4(aa[n]) ELSE compress5(aa[n])]
        ov == [n \in Idx |-> res[n].ov]
        t == [n \in Idx |-> res[n].t]
        bad == FirstOverflow(ov, 0)
        done == IF overflow_checks THEN bad ELSE KYBER_N \div 8
    IN [r |-> [k \in DOMAIN rr |->
                 IF k >= g * done THEN rr[k]
                 ELSE IF g = 4 THEN pack4(t, k \div 4, k % 4)
                 ELSE pack5(t, k \div 5, k % 5)],
        panic |-> overflow_checks /\ bad < KYBER_N \div 8,
        wrapped |-> \E n \in 0 .. (8 * done - 1) : res[n].ov \/ res[n].lost]

poly_compress_nopanic(rr, aa) ==
    CASE KYBER_POLY_COMPRESSED_BYTES = 160 -> compress_with(rr, aa, 5)
      [] OTHER -> compress_with(rr, aa, 4)

poly_compress(rr, aa) ==
    CASE KYBER_POLY_COMPRESSED_BYTES = 128 -> compress_with(rr, aa, 4)
      [] KYBER_POLY_COMPRESSED_BYTES = 160 -> compress_with(rr, aa, 5)
      [] OTHER -> [r |-> rr, panic |-> TRUE, wrapped |-> FALSE]

\* the 4-bit value of coefficient n in a compressed buffer
unpack4(aa, n) ==
    IF n % 2 = 0 THEN BitAnd(aa[n \div 2], 15) ELSE aa[n \div 2] \div 16

\* t[j] of group i in a compressed buffer, 5 bits per value, before the & 31
unpack5(aa, n) ==
    LET idx == 5 * (n \div 8)
    IN CASE n % 8 = 0 -> aa[idx]
         [] n % 8 = 1 -> BitOr(aa[idx] \div 32, U8(aa[idx + 1] * 8))
         [] n % 8 = 2 -> aa[idx + 1] \div 4
         [] n % 8 = 3 -> BitOr(aa[idx + 1] \div 128, U8(aa[idx + 2] * 2))
         [] n % 8 = 4 -> BitOr(aa[idx + 2] \div 16, U8(aa[idx + 3] * 16))
         [] n % 8 = 5 -> aa[idx + 3] \div 2
         [] n % 8 = 6 -> BitOr(aa[idx + 3] \div 64, U8(aa[idx + 4] * 4))
         [] OTHER     -> aa[idx + 4] \div 8

decompress4(aa) ==
    [n \in Idx |-> I16((unpack4(aa, n) * KYBER_Q + 8) \div 16)]

decompress5_floor(aa) ==
    [n \in Idx |-> I16((BitAnd(unpack5(aa, n), 31) * KYBER_Q) \div 32)]

decompress5(aa) ==
    [n \in Idx |-> I16((BitAnd(unpack5(aa, n), 31) * KYBER_Q + 16) \div 32)]

poly_decompress_half(rr, aa) ==
    CASE KYBER_POLY_COMPRESSED_BYTES = 128 ->
            [r |-> [n \in Idx |-> IF n < KYBER_N \div 2 THEN decompress4(aa)[n] ELSE rr[n]],
             panic |-> FALSE]
      [] KYBER_POLY_COMPRESSED_BYTES = 160 -> [r |-> decompress5(aa), panic |-> FALSE]
      [] OTHER -> [r |-> rr, panic |-> TRUE]

poly_decompress(rr, aa) ==
    CASE KYBER_POLY_COMPRESSED_BYTES = 128 -> [r |-> decompress4(aa), panic |-> FALSE]
      [] KYBER_POLY_COMPRESSED_BYTES = 160 -> [r |-> decompress5(aa), panic |-> FALSE]
      [] OTHER -> [r |-> rr, panic |-> TRUE]

----------------------------------------------------------------------------
(* poly_reduce / poly_add *)

\* reduce.rs: Barrett reduction, x mod q
barrett_reduce(x) == x % KYBER_Q

poly_reduce_skiplast(rr) ==
    [i \in Idx |-> IF i < KYBER_N - 1 THEN barrett_reduce(rr[i]) ELSE rr[i]]

poly_reduce(rr) == [i \in Idx |-> barrett_reduce(rr[i])]

\* r.coeffs[i] += b.coeffs[i] in i16: an overflowing sum panics when overflow
\* checks are on, after the coefficients before it were updated, and wraps
\* otherwise
poly_add(rr, bb) ==
    LET over == {i \in Idx : ~FitsI16(rr[i] + bb[i])}
        bad == IF over = {} THEN KYBER_N
               ELSE CHOOSE i \in over : \A j \in over : i <= j
        done == IF overflow_checks THEN bad ELSE KYBER_N
    IN [r |-> [i \in Idx |-> IF i < done THEN I16(rr[i] + bb[i]) ELSE rr[i]],
        panic |-> overflow_checks /\ bad < KYBER_N,
        wrapped |-> ~overflow_checks /\ bad < KYBER_N]

----------------------------------------------------------------------------
(* poly_frommsg / poly_tomsg *)

poly_frommsg(rr, msg) ==
    [n \in Idx |->
        LET i == n \div 8
            j == n % 8
            mask == U16(0 - BitAnd(msg[i] \div Pow2(j), 1))
        IN I16(BitAnd(mask, (KYBER_Q + 1) \div 2))]

tomsg_bit_noshift(c) ==
    LET t1 == U32Add(U32FromI16(c), 1665).v
        t2 == U32Mul(t1, 1, 15099).v
    IN BitAnd(U32ShrHi(t2, 28), 1)

\* the message bit decoded from one coefficient; 80635 = 2^16 + 15099
tomsg_bit(c) ==
    LET t0 == U32Shl(U32FromI16(c), 1).v
        t1 == U32Add(t0, 1665).v
        t2 == U32Mul(t1, 1, 15099).v
    IN BitAnd(U32ShrHi(t2, 28), 1)

\* msg[i] after |= of the bits j..7
RECURSIVE tomsg_byte(_, _, _)
tomsg_byte(aa, i, j) ==
    IF j = 8 THEN 0
    ELSE BitOr(U8(tomsg_bit(aa[8 * i + j]) * Pow2(j)), tomsg_byte(aa, i, j + 1))

poly_tomsg(msg, aa) ==
    [k \in DOMAIN msg |-> IF k < KYBER_N \div 8 THEN tomsg_byte(aa, k, 0) ELSE msg[k]]

----------------------------------------------------------------------------
(* Inputs *)

PolyRamp(lo, span, start, stride) ==
    [i \in Idx |-> lo + ((start + i * stride) % span)]

ByteRamp(len, start, stride) ==
    [k \in 0 .. (len - 1) |-> (start + k * stride) % 256]

ByteFill(len, v) == [k \in 0 .. (len - 1) |-> v]

\* the k-th input byte buffer of a run
ByteBuf(len, k) == ByteRamp(len, 43 * k, 2 * k + 1)

\* the input polynomials of a run, numbered
PolyInputs ==
    {<<k, PolyRamp(0, KYBER_Q, 256 * k, 1)>> : k \in 0 .. (NCanon - 1)}
    \cup {<<100 + k, PolyRamp(-KYBER_Q, 2 * KYBER_Q, 256 * k, 1)>> : k \in 0 .. (NSigned - 1)}
    \cup {<<200 + k, PolyRamp(1 - 2 * KYBER_Q, 4 * KYBER_Q - 1, 256 * k, 1)>> :
              k \in 0 .. (NLazy - 1)}
    \cup {<<300 + k, PolyRamp(-32768, 65536, 16384 * k, 257)>> : k \in 0 .. (NWide - 1)}

\* round(y * q / 2^d), the d-bit quantization grid
Grid(d, y) == (y * KYBER_Q + Pow2(d - 1)) \div Pow2(d)

CompressInputs ==
    {<<k, PolyRamp(0, KYBER_Q, 256 * k, 1)>> : k \in 0 .. (NCanon - 1)}
    \cup {<<100 + k, PolyRamp(-KYBER_Q, 2 * KYBER_Q, 256 * k, 1)>> : k \in 0 .. (NSigned - 1)}
    \cup {<<300 + k, PolyRamp(-32768, 65536, 16384 * k, 257)>> : k \in 0 .. (NWide - 1)}
    \cup {<<400 + k, [i \in Idx |-> Grid(4, (i + 5 * k) % 16)]>> : k \in 0 .. (NGrid - 1)}
    \cup {<<500 + k, [i \in Idx |-> Grid(5, (i + 5 * k) % 32)]>> : k \in 0 .. (NGrid - 1)}
    \cup {<<600, Poly_new>>}

\* pairs <<a, b>> of polynomials to add: lazily reduced ones, large ones whose
\* sums fit 16 bits, and the full 16-bit range
ArithInputs ==
    {<<PolyRamp(1 - 2 * KYBER_Q, 4 * KYBER_Q - 1, 256 * k, 1),
       PolyRamp(1 - 2 * KYBER_Q, 4 * KYBER_Q - 1, 1000 * k + 7, 13)>> : k \in 0 .. (NLazy - 1)}
    \cup {<<PolyRamp(-30000, 60001, 4000 * k, 233),
            PolyRamp(-2000, 4001, 300 * k, 17)>> : k \in 0 .. (NWide - 1)}
    \cup {<<PolyRamp(-32768, 65536, 16384 * k, 257),
            PolyRamp(-2000, 4001, 300 * k, 17)>> : k \in 0 .. (NWide - 1)}

\* the messages of a run: all zero bits, all one bits, mixed
MsgInputs ==
    {ByteFill(KYBER_SYM_BYTES, 0), ByteFill(KYBER_SYM_BYTES, 255)}
    \cup {ByteRamp(KYBER_SYM_BYTES, 37 * k, 2 * k + 1) : k \in 2 .. (NMsgs - 1)}

\* the largest noise the message decoding tolerates, floor(q/4) - 1
NoiseBound == (KYBER_Q \div 4) - 1

\* noise polynomials with every value of [-NoiseBound, NoiseBound]
NoiseInputs ==
    {PolyRamp(-NoiseBound, 2 * NoiseBound + 1, 256 * k, 1) : k \in 0 .. (NNoise - 1)}

\* an output polynomial holding stale values, none of them canonical
Stale == [i \in Idx |-> -1 - i]

AllIn(p, lo, hi) == \A i \in Idx : lo <= p[i] /\ p[i] < hi

Canonical(p) == AllIn(p, 0, KYBER_Q)

Last(s) == s[Len(s)]

----------------------------------------------------------------------------
(* Serialization: the caller packs a or r into buf and unpacks buf into r. *)
(* buf starts with bytes the caller received.                              *)

InitBytes ==
    /\ KYBER_POLY_COMPRESSED_BYTES = 128
    /\ overflow_checks = TRUE
    /\ \E in \in PolyInputs :
          /\ a = in[2]
          /\ buf = ByteBuf(KYBER_POLY_BYTES, in[1])
    /\ b = Poly_new
    /\ r = Poly_new
    /\ msg_in = ByteFill(KYBER_SYM_BYTES, 0)
    /\ msg_out = ByteFill(KYBER_SYM_BYTES, 0)
    /\ panicked = FALSE
    /\ wrapped = FALSE
    /\ trace = <<>>

Tobytes ==
    /\ ~panicked
    /\ Len(trace) < MaxOps
    /\ \E src \in {"a", "r"} :
          /\ buf' = poly_tobytes(buf, IF src = "a" THEN a ELSE r)
          /\ trace' = Append(trace, <<"tobytes", src>>)
    /\ wrapped' = FALSE
    /\ UNCHANGED <<KYBER_POLY_COMPRESSED_BYTES, overflow_checks, a, b, r,
                   msg_in, msg_out, panicked>>

Frombytes ==
    /\ ~panicked
    /\ Len(trace) < MaxOps
    /\ r' = poly_frombytes(r, buf)
    /\ trace' = Append(trace, <<"frombytes", "buf">>)
    /\ wrapped' = FALSE
    /\ UNCHANGED <<KYBER_POLY_COMPRESSED_BYTES, overflow_checks, a, b, buf,
                   msg_in, msg_out, panicked>>

NextBytes == Tobytes \/ Frombytes

SpecBytes == InitBytes /\ [][NextBytes]_vars

\* the trace ends with the calls in s
EndsWith(s) ==
    /\ Len(trace) >= Len(s)
    /\ \A j \in 1 .. Len(s) : trace[Len(trace) - Len(s) + j] = s[j]

\* the i-th 12-bit little-endian field of a serialized polynomial
Field12(bb, i) ==
    IF i % 2 = 0
    THEN bb[3 * (i \div 2)] + 256 * (bb[3 * (i \div 2) + 1] % 16)
    ELSE (bb[3 * (i \div 2) + 1] \div 16) + 16 * bb[3 * (i \div 2) + 2]

\* C1: a canonical polynomial (all coefficients in [0, q)) survives
\* poly_tobytes followed by poly_frombytes unchanged, in every coefficient.
C1_RoundTrip ==
    (EndsWith(<<(<<"tobytes", "a">>), (<<"frombytes", "buf">>)>>) /\ Canonical(a))
        => r = a

C1_Witness ==
    /\ EndsWith(<<(<<"tobytes", "a">>), (<<"frombytes", "buf">>)>>)
    /\ Canonical(a)
    /\ a[0] = 3072 /\ a[1] = 3073 /\ a[255] = 3327
    /\ r = a

\* the sign fix-up of poly_tobytes packed the positive representative:
\* field i holds p[i] + q for a negative p[i], p[i] otherwise, and is below q
PackedFixed(p, bb) ==
    \A i \in Idx :
        /\ Field12(bb, i) = p[i] + (IF p[i] < 0 THEN KYBER_Q ELSE 0)
        /\ Field12(bb, i) < KYBER_Q

\* C8 as stated: for coefficients in the lazily-reduced range (-2q, 2q),
\* poly_tobytes adds q exactly to the negative ones and packs a value in [0, q).
C8_Original ==
    (EndsWith(<<(<<"tobytes", "a">>)>>) /\ AllIn(a, 1 - 2 * KYBER_Q, 2 * KYBER_Q))
        => PackedFixed(a, buf)

\* C8 amended: for coefficients in [-q, q), poly_tobytes adds q exactly to the
\* negative ones and the value it packs into 12 bits is in [0, q).
C8_SignFixup ==
    (EndsWith(<<(<<"tobytes", "a">>)>>) /\ AllIn(a, -KYBER_Q, KYBER_Q))
        => PackedFixed(a, buf)

C8_Witness ==
    /\ EndsWith(<<(<<"tobytes", "a">>)>>)
    /\ AllIn(a, -KYBER_Q, KYBER_Q)
    /\ a[0] = -KYBER_Q /\ a[255] = 255 - KYBER_Q
    /\ Field12(buf, 0) = 0 /\ Field12(buf, 255) = 255

\* C9: poly_frombytes of any 384-byte buffer yields coefficients in [0, 4096),
\* and poly_tobytes of that polynomial writes back exactly the same bytes.
C9_BytesRoundTrip ==
    [][/\ trace' = Append(trace, <<"frombytes", "buf">>) => AllIn(r', 0, 4096)
       /\ (/\ Len(trace) > 0
           /\ Last(trace) = <<"frombytes", "buf">>
           /\ trace' = Append(trace, <<"tobytes", "r">>)) => buf' = buf]_vars

C9_Witness ==
    /\ trace = <<(<<"frombytes", "buf">>), (<<"tobytes", "r">>)>>
    /\ buf[0] = 129 /\ buf[1] = 136 /\ buf[2] = 143
    /\ r[0] = 2177 /\ r[1] = 2296

----------------------------------------------------------------------------
(* Compression: the caller compresses a into buf and decompresses buf into *)
(* r.  buf starts with bytes the caller received, r with stale values.     *)

InitCompress ==
    /\ KYBER_POLY_COMPRESSED_BYTES \in ConfiguredWidths
    /\ overflow_checks \in BOOLEAN
    /\ \E in \in CompressInputs :
          /\ a = in[2]
          /\ buf = ByteBuf(KYBER_POLY_COMPRESSED_BYTES, in[1])
    /\ b = Poly_new
    /\ r = Stale
    /\ msg_in = ByteFill(KYBER_SYM_BYTES, 0)
    /\ msg_out = ByteFill(KYBER_SYM_BYTES, 0)
    /\ panicked = FALSE
    /\ wrapped = FALSE
    /\ trace = <<>>

Compress ==
    /\ ~panicked
    /\ Len(trace) < MaxOps
    /\ LET res == poly_compress(buf, a)
       IN /\ buf' = res.r
          /\ panicked' = res.panic
          /\ wrapped' = res.wrapped
    /\ trace' = Append(trace, <<"compress", "a">>)
    /\ UNCHANGED <<KYBER_POLY_COMPRESSED_BYTES, overflow_checks, a, b, r,
                   msg_in, msg_out>>

Decompress ==
    /\ ~panicked
    /\ Len(trace) < MaxOps
    /\ LET res == poly_decompress(r, buf)
       IN /\ r' = res.r
          /\ panicked' = res.panic
    /\ trace' = Append(trace, <<"decompress", "buf">>)
    /\ wrapped' = FALSE
    /\ UNCHANGED <<KYBER_POLY_COMPRESSED_BYTES, overflow_checks, a, b, buf,
                   msg_in, msg_out>>

NextCompress == Compress \/ Decompress

SpecCompress == InitCompress /\ [][NextCompress]_vars

Supported == KYBER_POLY_COMPRESSED_BYTES \in SupportedWidths

\* bits per coefficient of the configured width
D == IF KYBER_POLY_COMPRESSED_BYTES = 128 THEN 4 ELSE 5

\* the d-bit value stored for coefficient n
Stored(bb, n) == IF D = 4 THEN unpack4(bb, n) ELSE BitAnd(unpack5(bb, n), 31)

\* distance of x and y modulo q
Dist(x, y) ==
    LET dlt == (x - y) % KYBER_Q
    IN IF dlt <= KYBER_Q - dlt THEN dlt ELSE KYBER_Q - dlt

\* ceil(q / 2^(d+1))
Bound(d) == (KYBER_Q + Pow2(d + 1) - 1) \div Pow2(d + 1)

Compressed == EndsWith(<<(<<"compress", "a">>)>>)

CompressedDecompressed ==
    EndsWith(<<(<<"compress", "a">>), (<<"decompress", "buf">>)>>)

WithinBound ==
    /\ ~panicked
    /\ \A i \in Idx : Dist(r[i], a[i] % KYBER_Q) <= Bound(D)

\* C2 as stated: for every polynomial and both widths, decompress(compress(p))
\* is within ceil(q / 2^(d+1)) of p's positive residue, modulo q.
C2_Original == (CompressedDecompressed /\ Supported) => WithinBound

\* C2 amended: for every polynomial with coefficients in [-q, q) and both widths,
\* decompress(compress(p)) is within ceil(q / 2^(d+1)) of p's positive residue.
C2_Bound ==
    (CompressedDecompressed /\ Supported /\ AllIn(a, -KYBER_Q, KYBER_Q)) => WithinBound

C2_Witness ==
    /\ CompressedDecompressed
    /\ KYBER_POLY_COMPRESSED_BYTES = 160
    /\ a[0] = -KYBER_Q + 1536 /\ a[255] = -KYBER_Q + 1791
    /\ r[0] = 1560 /\ r[0] # a[0] % KYBER_Q
    /\ WithinBound

IsGrid(p, d) == \A i \in Idx : \E y \in 0 .. (Pow2(d) - 1) : p[i] = Grid(d, y)

\* C3: a polynomial whose coefficients are all grid values round(y*q/2^d)
\* (the zero polynomial included) is returned unchanged by compress then
\* decompress, for both widths.
C3_Grid ==
    (CompressedDecompressed /\ Supported /\ IsGrid(a, D)) => (~panicked /\ r = a)

C3_Witness ==
    /\ CompressedDecompressed
    /\ KYBER_POLY_COMPRESSED_BYTES = 160
    /\ IsGrid(a, 5) /\ ~IsGrid(a, 4)
    /\ a[1] = Grid(5, 1) /\ a[31] = Grid(5, 31)
    /\ r = a

\* C6: with an unsupported configured width, poly_compress and
\* poly_decompress panic and leave the output buffer and the output
\* polynomial exactly as they were.
C6_Fatal ==
    [][(~Supported /\ Len(trace') > Len(trace))
          => (panicked' /\ buf' = buf /\ r' = r)]_vars

C6_Witness ==
    /\ KYBER_POLY_COMPRESSED_BYTES = 320
    /\ Compressed
    /\ a[0] = 3072
    /\ panicked
    /\ buf = ByteBuf(320, 12)
    /\ r = Stale

\* floor(((x << d) + floor(q/2)) / q) mod 2^d
RefCompress(x, d) == (((x * Pow2(d)) + (KYBER_Q \div 2)) \div KYBER_Q) % Pow2(d)

\* C7: for canonical coefficients and both widths, the d-bit value
\* poly_compress stores equals round((2^d/q) x) mod 2^d, and no intermediate
\* value overflows its integer type.
C7_BitExact ==
    (Compressed /\ Supported /\ Canonical(a))
        => /\ ~panicked
           /\ ~wrapped
           /\ \A n \in Idx : Stored(buf, n) = RefCompress(a[n], D)

C7_Witness ==
    /\ Compressed
    /\ KYBER_POLY_COMPRESSED_BYTES = 128
    /\ a[0] = 3072 /\ a[255] = 3327
    /\ Stored(buf, 0) = 15 /\ Stored(buf, 255) = 0
    /\ ~panicked /\ ~wrapped

\* C10: poly_decompress of any buffer of the compressed width overwrites
\* every coefficient of the output polynomial with a value in [0, q).
C10_Canonical ==
    (Len(trace) > 0 /\ Last(trace)[1] = "decompress" /\ Supported)
        => (~panicked /\ Canonical(r))

C10_Witness ==
    /\ trace = <<(<<"decompress", "buf">>)>>
    /\ KYBER_POLY_COMPRESSED_BYTES = 160
    /\ buf[0] = 129 /\ buf[1] = 136
    /\ r[0] = (1 * KYBER_Q + 16) \div 32 /\ r[1] = (4 * KYBER_Q + 16) \div 32
    /\ Canonical(r)

----------------------------------------------------------------------------
(* Lazy arithmetic: the caller accumulates b into r, a copy of a, and      *)
(* reduces r.                                                              *)

InitArith ==
    /\ KYBER_POLY_COMPRESSED_BYTES = 128
    /\ overflow_checks \in BOOLEAN
    /\ \E in \in ArithInputs :
          /\ a = in[1]
          /\ b = in[2]
    /\ r = a
    /\ buf = ByteFill(KYBER_POLY_BYTES, 0)
    /\ msg_in = ByteFill(KYBER_SYM_BYTES, 0)
    /\ msg_out = ByteFill(KYBER_SYM_BYTES, 0)
    /\ panicked = FALSE
    /\ wrapped = FALSE
    /\ trace = <<>>

Add ==
    /\ ~panicked
    /\ Len(trace) < MaxOps
    /\ LET res == poly_add(r, b)
       IN /\ r' = res.r
          /\ panicked' = res.panic
          /\ wrapped' = res.wrapped
    /\ trace' = Append(trace, <<"add", "b">>)
    /\ UNCHANGED <<KYBER_POLY_COMPRESSED_BYTES, overflow_checks, a, b, buf,
                   msg_in, msg_out>>

Reduce ==
    /\ ~panicked
    /\ Len(trace) < MaxOps
    /\ r' = poly_reduce(r)
    /\ trace' = Append(trace, <<"reduce", "r">>)
    /\ UNCHANGED <<KYBER_POLY_COMPRESSED_BYTES, overflow_checks, a, b, buf,
                   msg_in, msg_out, panicked, wrapped>>

NextArith == Add \/ Reduce

SpecArith == InitArith /\ [][NextArith]_vars

AddedReduced == trace = <<(<<"add", "b">>), (<<"reduce", "r">>)>>

SumsModQ == \A i \in Idx : r[i] = (a[i] + b[i]) % KYBER_Q

\* C5 as stated: for polynomials a and b, poly_add then poly_reduce leaves
\* (a[i] + b[i]) mod q in every coefficient.
C5_Original == AddedReduced => SumsModQ

\* C5 amended: for polynomials a and b whose coefficient sums fit a signed
\* 16-bit integer, poly_add then poly_reduce leaves (a[i] + b[i]) mod q in
\* every coefficient.
C5_Homomorphism ==
    (AddedReduced /\ \A i \in Idx : FitsI16(a[i] + b[i])) => SumsModQ

C5_Witness ==
    /\ AddedReduced
    /\ a[0] = -30000 /\ b[0] = -2000
    /\ \A i \in Idx : FitsI16(a[i] + b[i])
    /\ r[0] = (-32000) % KYBER_Q
    /\ SumsModQ

----------------------------------------------------------------------------
(* Message coding: the caller encodes msg_in into r, adds the noise b and  *)
(* decodes r into msg_out.                                                 *)

InitMsg ==
    /\ KYBER_POLY_COMPRESSED_BYTES = 128
    /\ overflow_checks = TRUE
    /\ a = Poly_new
    /\ b \in NoiseInputs
    /\ r = Poly_new
    /\ buf = ByteFill(KYBER_POLY_BYTES, 0)
    /\ msg_in \in MsgInputs
    /\ msg_out = ByteFill(KYBER_SYM_BYTES, 0)
    /\ panicked = FALSE
    /\ wrapped = FALSE
    /\ trace = <<>>

Frommsg ==
    /\ ~panicked
    /\ Len(trace) < MaxMsgOps
    /\ r' = poly_frommsg(r, msg_in)
    /\ trace' = Append(trace, <<"frommsg", "msg_in">>)
    /\ wrapped' = FALSE
    /\ UNCHANGED <<KYBER_POLY_COMPRESSED_BYTES, overflow_checks, a, b, buf,
                   msg_in, msg_out, panicked>>

AddNoise ==
    /\ ~panicked
    /\ Len(trace) < MaxMsgOps
    /\ LET res == poly_add(r, b)
       IN /\ r' = res.r
          /\ panicked' = res.panic
          /\ wrapped' = res.wrapped
    /\ trace' = Append(trace, <<"add", "b">>)
    /\ UNCHANGED <<KYBER_POLY_COMPRESSED_BYTES, overflow_checks, a, b, buf,
                   msg_in, msg_out>>

Tomsg ==
    /\ ~panicked
    /\ Len(trace) < MaxMsgOps
    /\ msg_out' = poly_tomsg(msg_out, r)
    /\ trace' = Append(trace, <<"tomsg", "r">>)
    /\ wrapped' = FALSE
    /\ UNCHANGED <<KYBER_POLY_COMPRESSED_BYTES, overflow_checks, a, b, r, buf,
                   msg_in, panicked>>

NextMsg == Frommsg \/ AddNoise \/ Tomsg

SpecMsg == InitMsg /\ [][NextMsg]_vars

EncodedDecoded == EndsWith(<<(<<"frommsg", "msg_in">>), (<<"tomsg", "r">>)>>)

EncodedNoisedDecoded ==
    EndsWith(<<(<<"frommsg", "msg_in">>), (<<"add", "b">>), (<<"tomsg", "r">>)>>)

\* C4: poly_tomsg recovers the message from poly_frommsg's polynomial, also
\* after every coefficient was moved by at most floor(q/4) - 1.
C4_MsgRoundTrip ==
    /\ EncodedDecoded => msg_out = msg_in
    /\ (EncodedNoisedDecoded /\ AllIn(b, -NoiseBound, NoiseBound + 1)) => msg_out = msg_in

C4_Witness ==
    /\ EncodedNoisedDecoded
    /\ msg_in = ByteFill(KYBER_SYM_BYTES, 255)
    /\ b[0] = -NoiseBound
    /\ r[0] = 1665 - 831 /\ r[255] = 1665 - 831 + 255
    /\ msg_out = msg_in

====
